---------------------------- MODULE Spec2Model ----------------------------
(***************************************************************************)
(* NYC Taxi Pulse: the data loader (src/src/data_loader.py) and the Dash   *)
(* callbacks (src/app.py, src/src/visualizations.py) as state machines.    *)
(*                                                                         *)
(* Times are minutes since 2023-01-01 00:00 (a Sunday); a date is a day    *)
(* number since 2023-01-01.  A nullable cell is <<>> (null / NaN / NaT) or *)
(* <<v>>.  A DataFrame is a sequence of rows, each row a record carrying   *)
(* its index label in the field "index".                                   *)
(***************************************************************************)
EXTENDS Integers, Sequences, FiniteSets, TLC

VARIABLES
    \* ---- the local disk and the loader (data_loader.py)
    rawFile,        \* data/raw/yellow_tripdata_Y-MM.parquet, per <<year, month>>
    cacheFile,      \* data/cache/<name>: "absent", "corrupt" or a pickled package
    call,           \* the running load_all_data call: its arguments, position, locals
    hist,           \* what the running call has done so far (per-call counters)
    log,            \* history: the fetches that completed, the triples saved per cache file
    nCalls,         \* number of load_all_data calls started
    appState,       \* app.py's process: "off", "loading", "exited1", "serving"
    \* ---- the dashboard (app.py)
    data_package,   \* the package app.py holds after startup (taxi_df, agg_data, geojson)
    controls,       \* the five filter controls
    store,          \* dcc.Store 'filtered-data-store'
    storePending,   \* update_filtered_data has been triggered and has not run yet
    panels,         \* the output of each of the seven panel callbacks
    panelPending,   \* the panel callbacks triggered and not run yet
    nChanges        \* number of control changes the user has made

loaderVars == <<rawFile, cacheFile, call, hist, log, nCalls, appState>>
dashVars == <<data_package, controls, store, storePending, panels, panelPending, nChanges>>
vars == <<rawFile, cacheFile, call, hist, log, nCalls, appState,
          data_package, controls, store, storePending, panels, panelPending, nChanges>>

---------------------------------------------------------------------------
(* Bounds of the model *)

\* load_all_data calls in one behaviour
MaxCalls == 2
\* control changes the user makes in one behaviour
MaxChanges == 1
\* the last day (2023-01-01 is day 0) a date control can be set to
MaxDay == 1
\* the sample_size, smaller than the month's file, that a caller may ask for
SmallSample == 2
MaxRows == 2
MaxTrips == 50
MaxOver == 1

---------------------------------------------------------------------------
(* Generic helpers *)

None == <<>>
Some(x) == <<x>>

IsNull(c) == c = <<>>
Val(c) == c[1]

Range(s) == {s[i] : i \in DOMAIN s}

RECURSIVE SeqSum(_)
SeqSum(s) == IF s = <<>> THEN 0 ELSE s[1] + SeqSum(Tail(s))

RECURSIVE SumOver(_, _, _, _)
\* sum of f[k] over the keys k in S between lo and hi
SumOver(f, S, lo, hi) ==
    IF lo > hi THEN 0
    ELSE IF lo = hi THEN (IF lo \in S THEN f[lo] ELSE 0)
    ELSE LET mid == (lo + hi) \div 2
         IN SumOver(f, S, lo, mid) + SumOver(f, S, mid + 1, hi)

\* sum of column[i] over the row positions i in S
RowSum(column, S) == SumOver(column, S, 1, Len(column))

RECURSIVE SetSum(_, _)
\* sum of f[k] over the keys k in S
SetSum(f, S) ==
    IF S = {} THEN 0
    ELSE LET k == CHOOSE x \in S : TRUE IN f[k] + SetSum(f, S \ {k})

\* a column of a table: the values of the field col, row by row
Column(df, col) == [i \in 1..Len(df) |-> df[i][col]]

\* a column of cells from a column of values that are never null
Cells(column) == [i \in 1..Len(column) |-> <<column[i]>>]

T(day, hh, mm) == day * 1440 + hh * 60 + mm


---------------------------------------------------------------------------
(* The remote inputs *)

RawRow(pu, do, pc, dist, fare, tip, pay, puloc, doloc) ==
    [tpep_pickup_datetime |-> pu, tpep_dropoff_datetime |-> do,
     passenger_count |-> pc, trip_distance |-> dist, fare_amount |-> fare,
     tip_amount |-> tip, payment_type |-> pay,
     PULocationID |-> puloc, DOLocationID |-> doloc]

\* The parquet file the TLC URL of (year, month) serves.  Month 1 holds four
\* valid trips and four that the cleaning removes; month 2 holds two trips.
Parquet(year, month) ==
    IF month = 1 THEN
      << RawRow(<<T(0, 6, 0)>>,   <<T(0, 6, 20)>>,  <<1>>, 3,  12, 2, <<1>>, 1, 2),
         RawRow(<<T(0, 9, 0)>>,   <<T(0, 9, 10)>>,  <<1>>, 1,  0,  0, <<1>>, 1, 2),
         RawRow(<<T(1, 22, 59)>>, <<T(1, 23, 14)>>, <<2>>, 5,  20, 0, <<2>>, 2, 1),
         RawRow(<<T(1, 10, 0)>>,  <<>>,             <<1>>, 2,  8,  1, <<1>>, 2, 2),
         RawRow(<<T(1, 23, 10)>>, <<T(2, 0, 5)>>,   <<1>>, 2,  9,  0, <<3>>, 9, 1),
         RawRow(<<T(0, 12, 0)>>,  <<T(0, 12, 40)>>, <<1>>, 10, 30, 5, <<>>,  1, 9),
         RawRow(<<T(1, 13, 0)>>,  <<T(1, 13, 30)>>, <<>>,  4,  15, 3, <<1>>, 2, 1),
         RawRow(<<T(0, 1, 0)>>,   <<T(0, 9, 20)>>,  <<1>>, 90, 250, 0, <<2>>, 1, 1) >>
    ELSE
      << RawRow(<<T(31, 7, 0)>>,  <<T(31, 7, 30)>>, <<1>>, 4,  16, 3, <<1>>, 2, 1),
         RawRow(<<T(35, 18, 0)>>, <<T(35, 18, 9)>>, <<3>>, 1,  7,  0, <<2>>, 1, 1) >>

\* The GeoJSON the zones URL serves (the properties create_zone_lookup reads)
ZonesGeoJSON ==
    [features |->
      << [properties |-> [zone_id |-> 1, zone_name |-> "Midtown", borough |-> "Manhattan"]],
         [properties |-> [zone_id |-> 2, zone_name |-> "JFK Airport", borough |-> "Queens"]] >>]

---------------------------------------------------------------------------
(* DataLoader (src/src/data_loader.py) *)

random_state == 42

\* The positions 1..n in the order RandomState(random_state) draws them: a
\* fixed permutation that depends on n and the seed alone.
SamplePermutation(n) == [k \in 1..n |-> ((k - 1 + random_state) % n) + 1]

\* pd.read_parquet: the rows with the positional index 0..n-1
read_parquet(rows) == [i \in 1..Len(rows) |-> [index |-> i - 1, raw |-> rows[i]]]

\* df.sample(n=sample_size, random_state=42) when len(df) > sample_size
SampleRows(df, sample_size) ==
    IF Len(df) > sample_size
    THEN LET order == SamplePermutation(Len(df))
         IN [k \in 1..sample_size |-> df[order[k]]]
    ELSE df

DayNames == <<"Sunday", "Monday", "Tuesday", "Wednesday", "Thursday", "Friday", "Saturday">>
day_name(t) == DayNames[((t \div 1440) % 7) + 1]
month_of(t) == IF t \div 1440 < 31 THEN 1 ELSE 2

\* a payment map with the names of codes 3 and 4 exchanged
payment_map_swapped(code) ==
    CASE code = <<1>> -> "Credit Card"
      [] code = <<2>> -> "Cash"
      [] code = <<3>> -> "Dispute"
      [] code = <<4>> -> "No Charge"
      [] code = <<5>> -> "Unknown"
      [] OTHER -> "Unknown"

payment_map(code) ==
    CASE code = <<1>> -> "Credit Card"
      [] code = <<2>> -> "Cash"
      [] code = <<3>> -> "No Charge"
      [] code = <<4>> -> "Dispute"
      [] code = <<5>> -> "Unknown"
      [] OTHER -> "Unknown"

HasTimes(r) ==
    ~IsNull(r.raw.tpep_pickup_datetime) /\ ~IsNull(r.raw.tpep_dropoff_datetime)
FareOk(r) == r.raw.fare_amount > 0 /\ r.raw.fare_amount <= 300
DistanceOk(r) == r.raw.trip_distance > 0 /\ r.raw.trip_distance <= 100
PassengersOk(r) ==
    /\ ~IsNull(r.raw.passenger_count)
    /\ Val(r.raw.passenger_count) > 0
    /\ Val(r.raw.passenger_count) <= 8
\* a duration filter that keeps trips of no duration
DurationOkNoLower(r) == r.trip_duration_minutes >= 0 /\ r.trip_duration_minutes <= 480

DurationOk(r) == r.trip_duration_minutes > 0 /\ r.trip_duration_minutes <= 480

Derive(r) ==
    LET pu == Val(r.raw.tpep_pickup_datetime)
        do == Val(r.raw.tpep_dropoff_datetime)
    IN [index |-> r.index,
        tpep_pickup_datetime |-> pu,
        tpep_dropoff_datetime |-> do,
        passenger_count |-> Val(r.raw.passenger_count),
        trip_distance |-> r.raw.trip_distance,
        fare_amount |-> r.raw.fare_amount,
        tip_amount |-> r.raw.tip_amount,
        PULocationID |-> r.raw.PULocationID,
        DOLocationID |-> r.raw.DOLocationID,
        date |-> pu \div 1440,
        hour |-> (pu % 1440) \div 60,
        day_of_week |-> day_name(pu),
        month |-> month_of(pu),
        trip_duration_minutes |-> do - pu,
        payment_type_name |-> payment_map(r.raw.payment_type)]

clean_taxi_data(df) ==
    LET d1 == SelectSeq(df, HasTimes)
        d2 == SelectSeq(d1, FareOk)
        d3 == SelectSeq(d2, DistanceOk)
        d4 == SelectSeq(d3, PassengersOk)
        d5 == [i \in 1..Len(d4) |-> Derive(d4[i])]
    IN SelectSeq(d5, DurationOk)

\* the body of load_taxi_data's try block after the file has been read
SampleAndClean(rows, sample_size) ==
    clean_taxi_data(SampleRows(read_parquet(rows), sample_size))

EmptyDict == [k \in {} |-> None]

create_zone_lookup(geojson) ==
    IF geojson = None THEN EmptyDict
    ELSE LET fs == Val(geojson).features
             ids == {fs[i].properties.zone_id : i \in DOMAIN fs}
         IN [z \in ids |->
               LET i == CHOOSE j \in DOMAIN fs :
                          /\ fs[j].properties.zone_id = z
                          /\ \A k \in DOMAIN fs : fs[k].properties.zone_id = z => k <= j
               IN [zone_name |-> fs[i].properties.zone_name,
                   borough |-> fs[i].properties.borough]]

ZoneName(zone_lookup, x) ==
    IF x \in DOMAIN zone_lookup THEN zone_lookup[x].zone_name ELSE "Unknown"
Borough(zone_lookup, x) ==
    IF x \in DOMAIN zone_lookup THEN zone_lookup[x].borough ELSE "Unknown"

\* A record r extended with the fields of record e
Extend(r, e) ==
    [f \in DOMAIN r \cup DOMAIN e |-> IF f \in DOMAIN e THEN e[f] ELSE r[f]]

enrich_taxi_data_with_zones(df, zone_lookup) ==
    [i \in 1..Len(df) |->
       Extend(df[i],
              [pickup_zone |-> ZoneName(zone_lookup, df[i].PULocationID),
               pickup_borough |-> Borough(zone_lookup, df[i].PULocationID),
               dropoff_zone |-> ZoneName(zone_lookup, df[i].DOLocationID),
               dropoff_borough |-> Borough(zone_lookup, df[i].DOLocationID)])]

\* df['date'].unique(): the distinct dates in order of first appearance
RECURSIVE UniqueDates(_)
UniqueDates(df) ==
    IF df = <<>> THEN <<>>
    ELSE LET init == UniqueDates(SubSeq(df, 1, Len(df) - 1))
             d == df[Len(df)].date
         IN IF d \in Range(init) THEN init ELSE Append(init, d)

\* np.random is not seeded: every draw of is_rainy per date is possible.
\* (The temperature and precipitation columns are random too and are read
\* by no callback; the model keeps the flag.)
generate_synthetic_weather(df) ==
    LET dates == UniqueDates(df)
    IN {[i \in 1..Len(dates) |-> [date |-> dates[i], is_rainy |-> f[i]]] :
          f \in [1..Len(dates) -> BOOLEAN]}

RECURSIVE LeftMerge(_, _)
\* taxi_df.merge(weather_df, on date, how='left'): one row per matching
\* weather row, a null flag when none matches
LeftMerge(df, weather_df) ==
    IF df = <<>> THEN <<>>
    ELSE LET r == df[1]
             hits == SelectSeq(weather_df, LAMBDA w : w.date = r.date)
             out == IF hits = <<>>
                    THEN <<Extend(r, [is_rainy |-> <<>>])>>
                    ELSE [k \in 1..Len(hits) |->
                            Extend(r, [is_rainy |-> <<hits[k].is_rainy>>])]
         IN out \o LeftMerge(Tail(df), weather_df)

\* the merge result carries a fresh RangeIndex
merge_weather_data(taxi_df, weather_df) ==
    LET m == LeftMerge(taxi_df, weather_df)
    IN [i \in 1..Len(m) |-> [m[i] EXCEPT !.index = i - 1]]

\* df.groupby(keys).agg(count of PULocationID, sum of fare_amount), keys
\* being a column of cells: the groups are those of the rows whose key is
\* not null
GroupKeys(keys) == {Val(keys[i]) : i \in {j \in DOMAIN keys : ~IsNull(keys[j])}}
GroupRows(keys, k) == {i \in DOMAIN keys : keys[i] = <<k>>}
FareSum(df, S) == RowSum(Column(df, "fare_amount"), S)
GroupAgg(df, keys) ==
    [k \in GroupKeys(keys) |->
       [trip_count |-> Cardinality(GroupRows(keys, k)),
        total_fare |-> FareSum(df, GroupRows(keys, k))]]

AddDateHour(df) ==
    [i \in 1..Len(df) |->
       Extend(df[i], [date_hour |-> df[i].tpep_pickup_datetime
                                    - (df[i].tpep_pickup_datetime % 60)])]

\* the five pre-aggregations (the means are total / count)
create_aggregations(df) ==
    [daily |-> GroupAgg(df, Cells(Column(df, "date"))),
     hourly |-> GroupAgg(df, Cells(Column(df, "date_hour"))),
     hour_dow |-> GroupAgg(df, [i \in 1..Len(df) |-> << <<df[i].hour, df[i].day_of_week>> >>]),
     borough |-> GroupAgg(df, Cells(Column(df, "pickup_borough"))),
     payment |-> GroupAgg(df, Cells(Column(df, "payment_type_name")))]

\* load_all_data from the enrichment on, given what the steps before produced
BuildPackage(taxi_df, geojson, weather_df) ==
    LET zone_lookup == create_zone_lookup(geojson)
        enriched == enrich_taxi_data_with_zones(taxi_df, zone_lookup)
        merged == AddDateHour(merge_weather_data(enriched, weather_df))
    IN [raw |-> merged,
        geojson |-> geojson,
        zone_lookup |-> zone_lookup,
        aggregations |-> create_aggregations(merged)]


---------------------------------------------------------------------------
(* File names and arguments of load_all_data *)

default_year == 2023
default_month == 1
default_sample_size == 50000

Years == {default_year}
Months == {default_month, default_month + 1}
SampleSizes == {SmallSample, default_sample_size}

DigitChars == <<"0", "1", "2", "3", "4", "5", "6", "7", "8", "9">>

RECURSIVE Digits(_)
\* f"{n}" of a natural number
Digits(n) ==
    IF n < 10 THEN <<DigitChars[n + 1]>>
    ELSE Digits(n \div 10) \o <<DigitChars[(n % 10) + 1]>>

\* f"{n:02d}"
Digits02(n) == IF n < 10 THEN <<"0">> \o Digits(n) ELSE Digits(n)

\* data/raw/yellow_tripdata_{year}-{month:02d}.parquet
local_file(year, month) ==
    <<"data/raw/yellow_tripdata_">> \o Digits(year) \o <<"-">> \o Digits02(month)
        \o <<".parquet">>

\* a cache file name that leaves the sample size out
cache_file_no_sample(year, month, sample_size) ==
    <<"data/cache/taxi_data_">> \o Digits(year) \o <<"_">> \o Digits02(month)
        \o <<".pkl">>

\* data/cache/taxi_data_{year}_{month:02d}_{sample_size}.pkl
cache_file(year, month, sample_size) ==
    <<"data/cache/taxi_data_">> \o Digits(year) \o <<"_">> \o Digits02(month)
        \o <<"_">> \o Digits(sample_size) \o <<".pkl">>

RawNames == {local_file(y, m) : y \in Years, m \in Months}
CacheNames == {cache_file(y, m, s) : y \in Years, m \in Months, s \in SampleSizes}

Absent == [state |-> "absent", data |-> None]
Corrupt == [state |-> "corrupt", data |-> None]
Pickled(data) == [state |-> "ok", data |-> Some(data)]

---------------------------------------------------------------------------
(* load_all_data as a sequence of steps *)

Idle ==
    [pc |-> "idle", caller |-> "none", year |-> 0, month |-> 0, sample_size |-> 0,
     use_cache |-> FALSE, taxi_df |-> <<>>, geojson |-> None, result |-> None]

NoHist ==
    [cacheReads |-> 0, localReads |-> 0, parquetRequests |-> 0, geoRequests |-> 0,
     cacheFailed |-> FALSE, taxiFailed |-> FALSE, geoFailed |-> FALSE,
     computed |-> FALSE]

LoaderInit ==
    /\ rawFile = [n \in RawNames |-> "absent"]
    /\ cacheFile = [n \in CacheNames |-> Absent]
    /\ call = Idle
    /\ hist = NoHist
    /\ log = [parquet |-> {}, geojson |-> FALSE, saved |-> [n \in CacheNames |-> {}]]
    /\ nCalls = 0
    /\ appState = "off"

Begin(caller, year, month, sample_size, use_cache) ==
    /\ call.pc = "idle"
    /\ nCalls < MaxCalls
    /\ nCalls' = nCalls + 1
    /\ call' = [Idle EXCEPT !.pc = "start", !.caller = caller, !.year = year,
                            !.month = month, !.sample_size = sample_size,
                            !.use_cache = use_cache]
    /\ hist' = NoHist

\* some program calls load_all_data(year, month, sample_size, use_cache)
Call(year, month, sample_size, use_cache) ==
    /\ Begin("caller", year, month, sample_size, use_cache)
    /\ UNCHANGED <<rawFile, cacheFile, log, appState>>
    /\ UNCHANGED dashVars

\* app.py starts: load_all_data(year=2023, month=1, sample_size=50000)
StartApp ==
    /\ appState \in {"off", "exited1"}
    /\ Begin("app", default_year, default_month, default_sample_size, TRUE)
    /\ appState' = "loading"
    /\ UNCHANGED <<rawFile, cacheFile, log>>
    /\ UNCHANGED dashVars

CacheOf(c) == cache_file(c.year, c.month, c.sample_size)
LocalOf(c) == local_file(c.year, c.month)

\* a cache read whose failure ends the call with None
TryCacheNoFallback ==
    /\ call.pc = "start"
    /\ IF call.use_cache /\ cacheFile[CacheOf(call)].state # "absent"
       THEN /\ hist' = [hist EXCEPT !.cacheReads = @ + 1,
                          !.cacheFailed = cacheFile[CacheOf(call)].state # "ok"]
            /\ call' = [call EXCEPT !.pc = "return",
                                    !.result = cacheFile[CacheOf(call)].data]
       ELSE /\ call' = [call EXCEPT !.pc = "load_taxi"]
            /\ UNCHANGED hist
    /\ UNCHANGED <<rawFile, cacheFile, log, nCalls, appState>>
    /\ UNCHANGED dashVars

\* a cache read whose package is read and then left aside
TryCacheRecompute ==
    /\ call.pc = "start"
    /\ IF call.use_cache /\ cacheFile[CacheOf(call)].state # "absent"
       THEN /\ hist' = [hist EXCEPT !.cacheReads = @ + 1,
                          !.cacheFailed = cacheFile[CacheOf(call)].state # "ok"]
            /\ call' = [call EXCEPT !.pc = "load_taxi"]
       ELSE /\ call' = [call EXCEPT !.pc = "load_taxi"]
            /\ UNCHANGED hist
    /\ UNCHANGED <<rawFile, cacheFile, log, nCalls, appState>>
    /\ UNCHANGED dashVars

\* lines 327-339: the cache is tried when use_cache and the file exists
TryCache ==
    /\ call.pc = "start"
    /\ IF call.use_cache /\ cacheFile[CacheOf(call)].state # "absent"
       THEN /\ hist' = [hist EXCEPT !.cacheReads = @ + 1,
                          !.cacheFailed = cacheFile[CacheOf(call)].state # "ok"]
            /\ IF cacheFile[CacheOf(call)].state = "ok"
               THEN call' = [call EXCEPT !.pc = "return",
                               !.result = cacheFile[CacheOf(call)].data]
               ELSE call' = [call EXCEPT !.pc = "load_taxi"]
       ELSE /\ call' = [call EXCEPT !.pc = "load_taxi"]
            /\ UNCHANGED hist
    /\ UNCHANGED <<rawFile, cacheFile, log, nCalls, appState>>
    /\ UNCHANGED dashVars

\* the local file has been read: load_taxi_data's result reaches load_all_data,
\* where an empty table ends the call
AfterTaxi(df, failed) ==
    /\ call' = IF df = <<>>
               THEN [call EXCEPT !.pc = "return", !.result = None]
               ELSE [call EXCEPT !.pc = "load_geo", !.taxi_df = df]
    /\ hist' = [hist EXCEPT !.localReads = @ + 1, !.taxiFailed = failed]

\* a read of the local file whose sample is drawn without a seed
ReadLocalUnseeded ==
    /\ call.pc \in {"load_taxi", "downloaded"}
    /\ rawFile[LocalOf(call)] # "absent"
    /\ IF rawFile[LocalOf(call)] = "complete"
       THEN LET df == read_parquet(Parquet(call.year, call.month))
            IN IF Len(df) > call.sample_size
               THEN \E seed \in 0..(Len(df) - 1) :
                      AfterTaxi(clean_taxi_data([k \in 1..call.sample_size |->
                                                  df[((k - 1 + seed) % Len(df)) + 1]]),
                                FALSE)
               ELSE AfterTaxi(clean_taxi_data(df), FALSE)
       ELSE AfterTaxi(<<>>, TRUE)
    /\ UNCHANGED <<rawFile, cacheFile, log, nCalls, appState>>
    /\ UNCHANGED dashVars

\* lines 56-58 and 81-95: the local file is read, sampled and cleaned; a
\* truncated file raises and the except branch returns an empty table
ReadLocal ==
    /\ call.pc \in {"load_taxi", "downloaded"}
    /\ rawFile[LocalOf(call)] # "absent"
    /\ IF rawFile[LocalOf(call)] = "complete"
       THEN AfterTaxi(SampleAndClean(Parquet(call.year, call.month), call.sample_size),
                      FALSE)
       ELSE AfterTaxi(<<>>, TRUE)
    /\ UNCHANGED <<rawFile, cacheFile, log, nCalls, appState>>
    /\ UNCHANGED dashVars

\* a download that does not look for the local file first
DownloadAlways(outcome) ==
    /\ call.pc = "load_taxi"
    /\ CASE outcome = "ok" ->
              /\ rawFile' = [rawFile EXCEPT ![LocalOf(call)] = "complete"]
              /\ log' = [log EXCEPT !.parquet = @ \cup {LocalOf(call)}]
              /\ call' = [call EXCEPT !.pc = "downloaded"]
              /\ hist' = [hist EXCEPT !.parquetRequests = @ + 1]
         [] outcome = "broken" ->
              /\ rawFile' = [rawFile EXCEPT ![LocalOf(call)] = "partial"]
              /\ call' = [call EXCEPT !.pc = "return", !.result = None]
              /\ hist' = [hist EXCEPT !.parquetRequests = @ + 1, !.taxiFailed = TRUE]
              /\ UNCHANGED log
         [] OTHER ->
              /\ call' = [call EXCEPT !.pc = "return", !.result = None]
              /\ hist' = [hist EXCEPT !.parquetRequests = @ + 1, !.taxiFailed = TRUE]
              /\ UNCHANGED <<rawFile, log>>
    /\ UNCHANGED <<cacheFile, nCalls, appState>>
    /\ UNCHANGED dashVars

\* a download that asks again when the request is refused
DownloadRetry(outcome) ==
    /\ call.pc = "load_taxi"
    /\ rawFile[LocalOf(call)] = "absent"
    /\ CASE outcome = "ok" ->
              /\ rawFile' = [rawFile EXCEPT ![LocalOf(call)] = "complete"]
              /\ log' = [log EXCEPT !.parquet = @ \cup {LocalOf(call)}]
              /\ call' = [call EXCEPT !.pc = "downloaded"]
              /\ hist' = [hist EXCEPT !.parquetRequests = @ + 1]
         [] outcome = "broken" ->
              /\ rawFile' = [rawFile EXCEPT ![LocalOf(call)] = "partial"]
              /\ call' = [call EXCEPT !.pc = "return", !.result = None]
              /\ hist' = [hist EXCEPT !.parquetRequests = @ + 1, !.taxiFailed = TRUE]
              /\ UNCHANGED log
         [] OTHER ->
              /\ call' = call
              /\ hist' = [hist EXCEPT !.parquetRequests = @ + 1]
              /\ UNCHANGED <<rawFile, log>>
    /\ UNCHANGED <<cacheFile, nCalls, appState>>
    /\ UNCHANGED dashVars

\* lines 59-80: no local file, so the URL is requested; the request may be
\* refused (no file is created), break while streaming (a truncated file
\* stays) or complete
Download(outcome) ==
    /\ call.pc = "load_taxi"
    /\ rawFile[LocalOf(call)] = "absent"
    /\ CASE outcome = "ok" ->
              /\ rawFile' = [rawFile EXCEPT ![LocalOf(call)] = "complete"]
              /\ log' = [log EXCEPT !.parquet = @ \cup {LocalOf(call)}]
              /\ call' = [call EXCEPT !.pc = "downloaded"]
              /\ hist' = [hist EXCEPT !.parquetRequests = @ + 1]
         [] outcome = "broken" ->
              /\ rawFile' = [rawFile EXCEPT ![LocalOf(call)] = "partial"]
              /\ call' = [call EXCEPT !.pc = "return", !.result = None]
              /\ hist' = [hist EXCEPT !.parquetRequests = @ + 1, !.taxiFailed = TRUE]
              /\ UNCHANGED log
         [] OTHER ->
              /\ call' = [call EXCEPT !.pc = "return", !.result = None]
              /\ hist' = [hist EXCEPT !.parquetRequests = @ + 1, !.taxiFailed = TRUE]
              /\ UNCHANGED <<rawFile, log>>
    /\ UNCHANGED <<cacheFile, nCalls, appState>>
    /\ UNCHANGED dashVars

\* a zones request whose failure ends the call with None
LoadGeoAbort(ok) ==
    /\ call.pc = "load_geo"
    /\ call' = IF ok THEN [call EXCEPT !.pc = "weather", !.geojson = Some(ZonesGeoJSON)]
               ELSE [call EXCEPT !.pc = "return", !.result = None]
    /\ hist' = [hist EXCEPT !.geoRequests = @ + 1, !.geoFailed = ~ok]
    /\ log' = [log EXCEPT !.geojson = @ \/ ok]
    /\ UNCHANGED <<rawFile, cacheFile, nCalls, appState>>
    /\ UNCHANGED dashVars

\* lines 152-161 and 352: the zones URL is requested; a failure gives None
LoadGeo(ok) ==
    /\ call.pc = "load_geo"
    /\ call' = [call EXCEPT !.pc = "weather",
                            !.geojson = IF ok THEN Some(ZonesGeoJSON) ELSE None]
    /\ hist' = [hist EXCEPT !.geoRequests = @ + 1, !.geoFailed = ~ok]
    /\ log' = [log EXCEPT !.geojson = @ \/ ok]
    /\ UNCHANGED <<rawFile, cacheFile, nCalls, appState>>
    /\ UNCHANGED dashVars

\* lines 353-375: zone lookup, enrichment, weather, merge, aggregations
Enrich ==
    /\ call.pc = "weather"
    /\ \E weather_df \in generate_synthetic_weather(call.taxi_df) :
         call' = [call EXCEPT !.pc = "save",
                     !.result = Some(BuildPackage(call.taxi_df, call.geojson, weather_df))]
    /\ hist' = [hist EXCEPT !.computed = TRUE]
    /\ UNCHANGED <<rawFile, cacheFile, log, nCalls, appState>>
    /\ UNCHANGED dashVars

\* lines 377-384: the package is pickled; a failure is printed and may leave
\* an unreadable file behind
SaveCache(ok) ==
    /\ call.pc = "save"
    /\ cacheFile' = [cacheFile EXCEPT ![CacheOf(call)] =
                        IF ok THEN Pickled(Val(call.result)) ELSE Corrupt]
    /\ log' = [log EXCEPT !.saved[CacheOf(call)] =
                  IF ok THEN @ \cup {<<call.year, call.month, call.sample_size>>} ELSE @]
    /\ call' = [call EXCEPT !.pc = "return"]
    /\ UNCHANGED <<rawFile, hist, nCalls, appState>>
    /\ UNCHANGED dashVars

---------------------------------------------------------------------------
(* app.py: module startup (lines 26-46) and the layout's controls *)

day_order == <<"Monday", "Tuesday", "Wednesday", "Thursday", "Friday", "Saturday", "Sunday">>
day_order_map(day) == (CHOOSE i \in DOMAIN day_order : day_order[i] = day) - 1

\* pd.to_datetime of a date or of an ISO date string: midnight of that day
to_datetime(day) == day * 1440

\* lines 33-44: the globals of app.py, given the package load_all_data returned
Startup(pkg) ==
    [taxi_df |-> [i \in 1..Len(pkg.raw) |->
                    [pkg.raw[i] EXCEPT !.date = to_datetime(@)]],
     agg_data |-> [pkg.aggregations EXCEPT !.hour_dow =
                     [k \in DOMAIN @ |-> Extend(@[k], [day_order |-> day_order_map(k[2])])]],
     geojson |-> pkg.geojson]

AllOption == [kind |-> "all", flag |-> FALSE]
Flag(b) == [kind |-> "bool", flag |-> b]

min_hour == 0
max_hour == 23
default_hour_lo == 6
default_hour_hi == 22

RECURSIVE SeqMin(_)
SeqMin(s) ==
    IF Len(s) = 1 THEN s[1]
    ELSE LET m == SeqMin(Tail(s)) IN IF s[1] <= m THEN s[1] ELSE m
RECURSIVE SeqMax(_)
SeqMax(s) ==
    IF Len(s) = 1 THEN s[1]
    ELSE LET m == SeqMax(Tail(s)) IN IF s[1] >= m THEN s[1] ELSE m

\* lines 178-246: the values the five controls hold when the page loads
\* (a date control holds the ISO string of a day: the day number here)
Layout(taxi_df) ==
    [start_date |-> SeqMin([i \in DOMAIN taxi_df |-> taxi_df[i].date]) \div 1440,
     end_date |-> SeqMax([i \in DOMAIN taxi_df |-> taxi_df[i].date]) \div 1440,
     hour_range |-> <<default_hour_lo, default_hour_hi>>,
     payment_type |-> "all",
     weather |-> AllOption,
     day_type |-> "all"]

PanelIds == {"metrics", "time_series", "heatmap", "weather", "scatter",
             "borough", "payment"}

NoControls ==
    [start_date |-> 0, end_date |-> 0, hour_range |-> <<min_hour, max_hour>>,
     payment_type |-> "all", weather |-> AllOption, day_type |-> "all"]

Unset == [kind |-> "unset", data |-> <<>>]

\* the dashboard before app.py has finished loading
DashOff ==
    /\ data_package = None
    /\ controls = NoControls
    /\ store = None
    /\ storePending = FALSE
    /\ panels = [p \in PanelIds |-> Unset]
    /\ panelPending = {}
    /\ nChanges = 0

\* the dashboard when a page has loaded over the package pkg: the controls
\* hold the layout's values and the root callback is due
DashOpen(pkg) ==
    /\ data_package' = Some(Startup(pkg))
    /\ controls' = Layout(Startup(pkg).taxi_df)
    /\ store' = None
    /\ storePending' = TRUE
    /\ panels' = [p \in PanelIds |-> Unset]
    /\ panelPending' = {}
    /\ nChanges' = 0

\* load_all_data returns to its caller; app.py exits with status 1 on None
\* and serves the dashboard otherwise (lines 29-31)
Return ==
    /\ call.pc = "return"
    /\ call' = Idle
    /\ IF call.caller = "app"
       THEN IF call.result = None
            THEN appState' = "exited1" /\ UNCHANGED dashVars
            ELSE appState' = "serving" /\ DashOpen(Val(call.result))
       ELSE UNCHANGED appState /\ UNCHANGED dashVars
    /\ UNCHANGED <<rawFile, cacheFile, hist, log, nCalls>>

LoaderNext ==
    \/ \E y \in Years, m \in Months, s \in SampleSizes, u \in BOOLEAN : Call(y, m, s, u)
    \/ StartApp
    \/ TryCache
    \/ ReadLocal
    \/ \E outcome \in {"ok", "broken", "refused"} : Download(outcome)
    \/ \E ok \in BOOLEAN : LoadGeo(ok)
    \/ Enrich
    \/ \E ok \in BOOLEAN : SaveCache(ok)
    \/ Return

InitLoad == LoaderInit /\ DashOff

\* The loader: any sequence of load_all_data calls and app.py starts
SpecLoad == InitLoad /\ [][LoaderNext]_vars

---------------------------------------------------------------------------
(* load_taxi_data's sampling and cleaning over any table read from a file *)

\* a trip that passes every filter of _clean_taxi_data
BaseRow == RawRow(<<T(0, 6, 0)>>, <<T(0, 6, 20)>>, <<1>>, 3, 12, 2, <<1>>, 1, 2)

\* rows a TLC parquet file may hold: BaseRow with one column at, next to or
\* beyond a limit of the cleaning, missing, or with another payment code
EdgeRows ==
    {[BaseRow EXCEPT !.fare_amount = f] : f \in {-5, 0, 1, 300, 301}}
      \cup {[BaseRow EXCEPT !.trip_distance = d] : d \in {0, 100, 101}}
      \cup {[BaseRow EXCEPT !.passenger_count = c] : c \in {<<>>, <<0>>, <<8>>, <<9>>}}
      \cup {[BaseRow EXCEPT !.tpep_dropoff_datetime = t] :
               t \in {<<>>, <<T(0, 5, 59)>>, <<T(0, 6, 0)>>, <<T(0, 14, 0)>>, <<T(0, 14, 1)>>}}
      \cup {[BaseRow EXCEPT !.tpep_pickup_datetime = <<>>],
            [BaseRow EXCEPT !.tpep_pickup_datetime = <<T(0, 23, 59)>>,
                            !.tpep_dropoff_datetime = <<T(1, 0, 10)>>]}
      \cup {[BaseRow EXCEPT !.payment_type = c] :
               c \in {<<>>, <<0>>, <<1>>, <<2>>, <<3>>, <<4>>, <<5>>, <<6>>}}

\* the contents of a parquet file: up to MaxRows rows
RawTables == UNION {[1..n -> EdgeRows] : n \in 1..MaxRows}

\* load_taxi_data is entered with the table read from the file (line 58 or
\* 81) and a sample size
InitClean ==
    /\ rawFile = [n \in RawNames |-> "absent"]
    /\ cacheFile = [n \in CacheNames |-> Absent]
    /\ \E rows \in RawTables, sample_size \in 1..MaxRows :
         call = [Idle EXCEPT !.pc = "read", !.sample_size = sample_size,
                             !.taxi_df = read_parquet(rows)]
    /\ hist = NoHist
    /\ log = [parquet |-> {}, geojson |-> FALSE, saved |-> [n \in CacheNames |-> {}]]
    /\ nCalls = 0
    /\ appState = "off"
    /\ DashOff

\* lines 83-91: the table is sampled when it has more than sample_size rows,
\* then cleaned, and the cleaned table is returned
CleanTable ==
    /\ call.pc = "read"
    /\ call' = [call EXCEPT !.pc = "cleaned",
                   !.result = Some(clean_taxi_data(SampleRows(call.taxi_df, call.sample_size)))]
    /\ UNCHANGED <<rawFile, cacheFile, hist, log, nCalls, appState>>
    /\ UNCHANGED dashVars

CleanNext == CleanTable

SpecClean == InitClean /\ [][CleanNext]_vars

---------------------------------------------------------------------------
(* app.py: the root callback update_filtered_data and the store *)

TaxiDf == Val(data_package).taxi_df

Weekend == {"Saturday", "Sunday"}

\* the five filters with the upper end of the hour range left out
FilterRowsHourExclusive(df, start_date, end_date, hour_range, payment_type, weather, day_type) ==
    LET d1 == SelectSeq(df, LAMBDA r : /\ r.date >= to_datetime(start_date)
                                    /\ r.date <= to_datetime(end_date))
        d2 == SelectSeq(d1, LAMBDA r : r.hour >= hour_range[1] /\ r.hour < hour_range[2])
        d3 == IF payment_type # "all"
              THEN SelectSeq(d2, LAMBDA r : r.payment_type_name = payment_type)
              ELSE d2
        d4 == IF weather.kind # "all"
              THEN SelectSeq(d3, LAMBDA r : r.is_rainy = <<weather.flag>>)
              ELSE d3
    IN IF day_type = "weekday"
       THEN SelectSeq(d4, LAMBDA r : r.day_of_week \notin Weekend)
       ELSE IF day_type = "weekend"
            THEN SelectSeq(d4, LAMBDA r : r.day_of_week \in Weekend)
            ELSE d4

\* lines 398-420: the five filters, applied one after the other to a copy
FilterRows(df, start_date, end_date, hour_range, payment_type, weather, day_type) ==
    LET d1 == SelectSeq(df, LAMBDA r : /\ r.date >= to_datetime(start_date)
                                    /\ r.date <= to_datetime(end_date))
        d2 == SelectSeq(d1, LAMBDA r : r.hour >= hour_range[1] /\ r.hour <= hour_range[2])
        d3 == IF payment_type # "all"
              THEN SelectSeq(d2, LAMBDA r : r.payment_type_name = payment_type)
              ELSE d2
        d4 == IF weather.kind # "all"
              THEN SelectSeq(d3, LAMBDA r : r.is_rainy = <<weather.flag>>)
              ELSE d3
    IN IF day_type = "weekday"
       THEN SelectSeq(d4, LAMBDA r : r.day_of_week \notin Weekend)
       ELSE IF day_type = "weekend"
            THEN SelectSeq(d4, LAMBDA r : r.day_of_week \in Weekend)
            ELSE d4

\* A datetime as to_json(date_format='iso') writes it: a string
Iso(t) == [iso |-> t]
\* the datetime an ISO string parses to
ParseIso(x) == x.iso

DatetimeColumns == {"tpep_pickup_datetime", "tpep_dropoff_datetime", "date", "date_hour"}
\* read_json(convert_dates=True) parses the columns whose name is date-like
\* ('date', '*_at', '*_time', 'timestamp*', 'modified', 'datetime')
DateLikeColumns == {"date"}

\* df.to_json(date_format='iso', orient='split')
to_json(df) ==
    [index |-> [i \in 1..Len(df) |-> df[i].index],
     data |-> [i \in 1..Len(df) |->
                 [c \in DOMAIN df[i] \ {"index"} |->
                    IF c \in DatetimeColumns THEN Iso(df[i][c]) ELSE df[i][c]]]]

\* pd.read_json(StringIO(json), orient='split')
read_json(json) ==
    [i \in 1..Len(json.data) |->
       Extend([c \in DOMAIN json.data[i] |->
                 IF c \in DateLikeColumns THEN ParseIso(json.data[i][c])
                 ELSE json.data[i][c]],
              [index |-> json.index[i]])]

\* lines 392-423
update_filtered_data(start_date, end_date, hour_range, payment_type, weather, day_type) ==
    to_json(FilterRows(TaxiDf, start_date, end_date, hour_range, payment_type,
                       weather, day_type))

\* a load that restores the dropoff time from the pickup column
load_filtered_data_pickup_twice(filtered_json) ==
    IF filtered_json = None THEN None
    ELSE LET df == read_json(Val(filtered_json))
         IN Some([i \in 1..Len(df) |->
                    [df[i] EXCEPT !.tpep_pickup_datetime = ParseIso(@),
                                  !.tpep_dropoff_datetime =
                                      ParseIso(df[i].tpep_pickup_datetime)]])

\* lines 427-437: None for a missing store, else the table with the pickup
\* and dropoff times restored
load_filtered_data(filtered_json) ==
    IF filtered_json = None THEN None
    ELSE LET df == read_json(Val(filtered_json))
         IN Some([i \in 1..Len(df) |->
                    [df[i] EXCEPT !.tpep_pickup_datetime = ParseIso(@),
                                  !.tpep_dropoff_datetime = ParseIso(@)]])

---------------------------------------------------------------------------
(* app.py and visualizations.py: the seven panel callbacks *)

\* f"{n:03d}"
Digits03(n) ==
    IF n < 10 THEN <<"0", "0">> \o Digits(n)
    ELSE IF n < 100 THEN <<"0">> \o Digits(n) ELSE Digits(n)

RECURSIVE FmtThousands(_)
\* f"{n:,}"
FmtThousands(n) ==
    IF n < 1000 THEN Digits(n)
    ELSE FmtThousands(n \div 1000) \o <<",">> \o Digits03(n % 1000)

\* a / b rounded to the nearest integer
RoundDiv(a, b) == (2 * a + b) \div (2 * b)

\* f"{total / n:.2f}"; the mean of no rows is NaN
FmtMean2(total, n) ==
    IF n = 0 THEN <<"n", "a", "n">>
    ELSE LET cents == RoundDiv(total * 100, n)
         IN Digits(cents \div 100) \o <<".">> \o Digits02(cents % 100)

ColumnSum(df, col) == SeqSum(Column(df, col))

\* a mean as the pair it is computed from
Mean(total, n) == [total |-> total, n |-> n]

\* df.groupby(keys).agg(...), keys being a column of cells: per group of
\* rows with a non-null key, the count of PULocationID (which the trip file
\* always fills) and the means the panels plot
PanelAgg(df, keys) ==
    [k \in GroupKeys(keys) |->
       LET g == GroupRows(keys, k)
       IN [trip_count |-> Cardinality(g),
           avg_fare |-> Mean(RowSum(Column(df, "fare_amount"), g), Cardinality(g)),
           avg_distance |-> Mean(RowSum(Column(df, "trip_distance"), g), Cardinality(g)),
           avg_tip |-> Mean(RowSum(Column(df, "tip_amount"), g), Cardinality(g))]]

EmptyFigure == [kind |-> "empty", data |-> <<>>]
Figure(kind, data) == [kind |-> kind, data |-> data]

\* app.py lines 447-459
update_metrics(filtered_json) ==
    LET df == load_filtered_data(filtered_json)
    IN IF df = None
       THEN [kind |-> "metrics",
             data |-> << <<"0">>, <<"$", "0", ".", "0", "0">>,
                         <<"0", " ", "m", "i">>, <<"$", "0">> >>]
       ELSE LET d == Val(df)
                fare == ColumnSum(d, "fare_amount")
                dist == ColumnSum(d, "trip_distance")
            IN [kind |-> "metrics",
                data |-> << FmtThousands(Len(d)),
                            <<"$">> \o FmtMean2(fare, Len(d)),
                            FmtMean2(dist, Len(d)) \o <<" ", "m", "i">>,
                            <<"$">> \o FmtThousands(fare) >>]

\* a time series drawn from the startup table instead of the store
update_time_series_unfiltered(filtered_json) ==
    IF filtered_json = None THEN EmptyFigure
    ELSE Figure("time_series",
                PanelAgg(TaxiDf, [i \in 1..Len(TaxiDf) |->
                                    <<TaxiDf[i].tpep_pickup_datetime \div 1440>>]))

\* app.py lines 466-482: trips per pickup date
update_time_series(filtered_json) ==
    LET df == load_filtered_data(filtered_json)
    IN IF df = None THEN EmptyFigure
       ELSE Figure("time_series",
                   PanelAgg(Val(df), [i \in 1..Len(Val(df)) |->
                                        <<Val(df)[i].tpep_pickup_datetime \div 1440>>]))

\* app.py lines 489-506: trips and mean fare per (hour, day of week)
update_heatmap(filtered_json) ==
    LET df == load_filtered_data(filtered_json)
    IN IF df = None THEN EmptyFigure
       ELSE Figure("heatmap",
                   PanelAgg(Val(df), [i \in 1..Len(Val(df)) |->
                                        << <<Val(df)[i].hour, Val(df)[i].day_of_week>> >>]))

\* visualizations.py lines 329-379: trips and means per is_rainy
create_weather_impact_chart(taxi_data) ==
    Figure("weather", PanelAgg(taxi_data, Column(taxi_data, "is_rainy")))

\* app.py lines 513-523
update_weather_chart(filtered_json) ==
    LET df == load_filtered_data(filtered_json)
    IN IF df = None THEN EmptyFigure ELSE create_weather_impact_chart(Val(df))

scatter_limit == 5000

\* a scatter plot of every trip of the store
update_scatter_all(filtered_json) ==
    LET df == load_filtered_data(filtered_json)
    IN IF df = None THEN EmptyFigure
       ELSE LET d == Val(df)
            IN Figure("scatter",
                      [i \in 1..Len(d) |->
                         [trip_distance |-> d[i].trip_distance,
                          fare_amount |-> d[i].fare_amount,
                          payment_type_name |-> d[i].payment_type_name,
                          passenger_count |-> d[i].passenger_count,
                          trip_duration_minutes |-> d[i].trip_duration_minutes]])

\* app.py lines 530-544: one point per trip, of at most scatter_limit trips
update_scatter(filtered_json) ==
    LET df == load_filtered_data(filtered_json)
    IN IF df = None THEN EmptyFigure
       ELSE LET d == SampleRows(Val(df), scatter_limit)
            IN Figure("scatter",
                      [i \in 1..Len(d) |->
                         [trip_distance |-> d[i].trip_distance,
                          fare_amount |-> d[i].fare_amount,
                          payment_type_name |-> d[i].payment_type_name,
                          passenger_count |-> d[i].passenger_count,
                          trip_duration_minutes |-> d[i].trip_duration_minutes]])

\* app.py lines 551-562: the fares per pickup borough
update_borough_boxplot(filtered_json) ==
    LET df == load_filtered_data(filtered_json)
    IN IF df = None THEN EmptyFigure
       ELSE Figure("borough",
                   [i \in 1..Len(Val(df)) |->
                      [pickup_borough |-> Val(df)[i].pickup_borough,
                       fare_amount |-> Val(df)[i].fare_amount]])

\* app.py lines 569-587: trips and means per payment type
update_payment_breakdown(filtered_json) ==
    LET df == load_filtered_data(filtered_json)
    IN IF df = None THEN EmptyFigure
       ELSE Figure("payment",
                   PanelAgg(Val(df), Cells(Column(Val(df), "payment_type_name"))))

---------------------------------------------------------------------------
(* The callbacks as Dash runs them *)

DateChoices == 0..MaxDay
HourRanges == {<<default_hour_lo, default_hour_hi>>, <<min_hour, max_hour>>,
               <<default_hour_lo + 1, default_hour_hi - 1>>}
PaymentOptions == {"all", "Credit Card", "Cash", "Unknown"}
WeatherOptions == {AllOption, Flag(FALSE), Flag(TRUE)}
DayTypeOptions == {"all", "weekday", "weekend"}

ControlNames == {"start_date", "end_date", "hour_range", "payment_type",
                 "weather", "day_type"}
\* every setting of the five controls
ControlValues ==
    [start_date : DateChoices, end_date : DateChoices, hour_range : HourRanges,
     payment_type : PaymentOptions, weather : WeatherOptions, day_type : DayTypeOptions]

\* The user of the reactive specification operates one control at a time:
\* a control is moved to the value below, or back to the layout's, while the
\* other controls hold the layout's values.  (The settings of several
\* controls at once are those of SpecFilter.)
UserPick ==
    [start_date |-> 1, end_date |-> 0, hour_range |-> <<min_hour, max_hour>>,
     payment_type |-> "Cash", weather |-> Flag(TRUE), day_type |-> "weekend"]

Serving == data_package # None

\* a control change with the day type left out of the root callback's Inputs
ChangeControlUnwired(name, value) ==
    /\ Serving
    /\ nChanges < MaxChanges
    /\ controls[name] # value
    /\ \A other \in ControlNames \ {name} : controls[other] = Layout(TaxiDf)[other]
    /\ controls' = [controls EXCEPT ![name] = value]
    /\ nChanges' = nChanges + 1
    /\ storePending' = (storePending \/ name # "day_type")
    /\ UNCHANGED <<data_package, store, panels, panelPending>>
    /\ UNCHANGED loaderVars

\* the user sets one control to another value: Dash triggers the callback
\* that has the control as an Input (lines 383-391)
ChangeControl(name, value) ==
    /\ Serving
    /\ nChanges < MaxChanges
    /\ controls[name] # value
    /\ \A other \in ControlNames \ {name} : controls[other] = Layout(TaxiDf)[other]
    /\ controls' = [controls EXCEPT ![name] = value]
    /\ nChanges' = nChanges + 1
    /\ storePending' = TRUE
    /\ UNCHANGED <<data_package, store, panels, panelPending>>
    /\ UNCHANGED loaderVars

\* a root callback that filters the startup table in place
UpdateFilteredDataInPlace ==
    /\ Serving
    /\ storePending
    /\ data_package' =
         Some([Val(data_package) EXCEPT !.taxi_df =
                 FilterRows(@, controls.start_date, controls.end_date,
                            controls.hour_range, controls.payment_type,
                            controls.weather, controls.day_type)])
    /\ store' = Some(update_filtered_data(controls.start_date, controls.end_date,
                                          controls.hour_range, controls.payment_type,
                                          controls.weather, controls.day_type))
    /\ storePending' = FALSE
    /\ panelPending' = PanelIds
    /\ UNCHANGED <<controls, panels, nChanges>>
    /\ UNCHANGED loaderVars

\* the root callback runs with the controls' current values and writes the
\* store; Dash then triggers the seven callbacks that have the store as Input
UpdateFilteredData ==
    /\ Serving
    /\ storePending
    /\ store' = Some(update_filtered_data(controls.start_date, controls.end_date,
                                          controls.hour_range, controls.payment_type,
                                          controls.weather, controls.day_type))
    /\ storePending' = FALSE
    /\ panelPending' = PanelIds
    /\ UNCHANGED <<data_package, controls, panels, nChanges>>
    /\ UNCHANGED loaderVars

\* panel callbacks of which the borough one writes the payment panel's output
RunPanelMiswired(p, out) ==
    /\ Serving
    /\ ~storePending
    /\ p \in panelPending
    /\ panels' = [panels EXCEPT ![IF p = "borough" THEN "payment" ELSE p] = out]
    /\ panelPending' = panelPending \ {p}
    /\ UNCHANGED <<data_package, controls, store, storePending, nChanges>>
    /\ UNCHANGED loaderVars

\* a panel callback runs with the store's current value and writes its output
RunPanel(p, out) ==
    /\ Serving
    /\ ~storePending
    /\ p \in panelPending
    /\ panels' = [panels EXCEPT ![p] = out]
    /\ panelPending' = panelPending \ {p}
    /\ UNCHANGED <<data_package, controls, store, storePending, nChanges>>
    /\ UNCHANGED loaderVars

UpdateMetrics == RunPanel("metrics", update_metrics(store))
UpdateTimeSeries == RunPanel("time_series", update_time_series(store))
UpdateHeatmap == RunPanel("heatmap", update_heatmap(store))
UpdateWeatherChart == RunPanel("weather", update_weather_chart(store))
UpdateScatter == RunPanel("scatter", update_scatter(store))
UpdateBoroughBoxplot == RunPanel("borough", update_borough_boxplot(store))
UpdatePaymentBreakdown == RunPanel("payment", update_payment_breakdown(store))

\* the output each panel callback is registered for (its Output and its body)
PanelOut(p, filtered_json) ==
    CASE p = "metrics" -> update_metrics(filtered_json)
      [] p = "time_series" -> update_time_series(filtered_json)
      [] p = "heatmap" -> update_heatmap(filtered_json)
      [] p = "weather" -> update_weather_chart(filtered_json)
      [] p = "scatter" -> update_scatter(filtered_json)
      [] p = "borough" -> update_borough_boxplot(filtered_json)
      [] p = "payment" -> update_payment_breakdown(filtered_json)

CallbackNext ==
    \/ UpdateFilteredData
    \/ UpdateMetrics
    \/ UpdateTimeSeries
    \/ UpdateHeatmap
    \/ UpdateWeatherChart
    \/ UpdateScatter
    \/ UpdateBoroughBoxplot
    \/ UpdatePaymentBreakdown

DashNext ==
    \/ \E name \in ControlNames :
         \E value \in {UserPick[name], Layout(TaxiDf)[name]} : ChangeControl(name, value)
    \/ CallbackNext

\* the packages a full run of load_all_data(year, month, sample_size) can
\* build: either outcome of the zones request and any weather draw
PackagesOf(year, month, sample_size) ==
    LET taxi_df == SampleAndClean(Parquet(year, month), sample_size)
    IN {BuildPackage(taxi_df, g, w) :
          g \in {None, Some(ZonesGeoJSON)}, w \in generate_synthetic_weather(taxi_df)}

\* the packages app.py can start on: load_all_data(2023, 1, 50000)
StartupPackages == PackagesOf(default_year, default_month, default_sample_size)

\* the disk and the loader after the first start of app.py returned pkg
LoadedFirst(pkg) ==
    /\ rawFile = [n \in RawNames |->
                    IF n = local_file(default_year, default_month)
                    THEN "complete" ELSE "absent"]
    /\ cacheFile = [n \in CacheNames |->
                      IF n = cache_file(default_year, default_month, default_sample_size)
                      THEN Pickled(pkg) ELSE Absent]
    /\ call = Idle
    /\ hist = [NoHist EXCEPT !.localReads = 1, !.parquetRequests = 1, !.geoRequests = 1,
                             !.geoFailed = (pkg.geojson = None), !.computed = TRUE]
    /\ log = [parquet |-> {local_file(default_year, default_month)},
              geojson |-> pkg.geojson # None,
              saved |-> [n \in CacheNames |->
                           IF n = cache_file(default_year, default_month, default_sample_size)
                           THEN {<<default_year, default_month, default_sample_size>>}
                           ELSE {}]]
    /\ nCalls = 1
    /\ appState = "serving"

\* the page as it loads: the layout's control values, nothing computed yet
PageLoaded(pkg) ==
    /\ data_package = Some(Startup(pkg))
    /\ controls = Layout(Startup(pkg).taxi_df)
    /\ store = None
    /\ storePending = TRUE
    /\ panels = [p \in PanelIds |-> Unset]
    /\ panelPending = {}
    /\ nChanges = 0

\* the package of the reactive specification: zones loaded, rain drawn for
\* the first date only
DashPackage ==
    CHOOSE pkg \in StartupPackages :
      /\ pkg.geojson # None
      /\ \A i \in DOMAIN pkg.raw : pkg.raw[i].is_rainy = <<pkg.raw[i].date = 0>>

InitDash == LoadedFirst(DashPackage) /\ PageLoaded(DashPackage)

\* The dashboard: the user changes controls while the callbacks run
Spec == InitDash /\ [][DashNext]_vars

\* The root callback and the panel callbacks on every setting of the
\* controls: the user has set the controls before the root callback ran
InitFilter ==
    \E pkg \in StartupPackages : \E c \in ControlValues :
      /\ pkg.geojson # None
      /\ LoadedFirst(pkg)
      /\ data_package = Some(Startup(pkg))
      /\ controls = c
      /\ store = None
      /\ storePending = TRUE
      /\ panels = [p \in PanelIds |-> Unset]
      /\ panelPending = {}
      /\ nChanges = 0

SpecFilter == InitFilter /\ [][CallbackNext]_vars

\* a package of n trips: the trips of DashPackage over and over, with fares
\* that run through 10..16, and the aggregations of those trips
TripPackage(n) ==
    LET base == DashPackage.raw
        raw == [i \in 1..n |->
                  [base[((i - 1) % Len(base)) + 1] EXCEPT !.index = i - 1,
                                                        !.fare_amount = ((i - 1) % 7) + 10]]
    IN [DashPackage EXCEPT !.raw = raw, !.aggregations = create_aggregations(raw)]

\* the numbers of trips of the scatter specification: a few, the limit of
\* update_scatter and the numbers just above it
TripCounts ==
    (1..MaxTrips) \cup (scatter_limit..(scatter_limit + MaxOver))

\* The scatter callback on stores of every size in TripCounts: app.py has
\* started on a table of n trips (the pickle could not be written), the
\* controls let every trip through and the root callback has run
InitScatter ==
    \E n \in TripCounts :
      LET startup == Startup(TripPackage(n)) IN
      /\ rawFile = [f \in RawNames |->
                      IF f = local_file(default_year, default_month)
                      THEN "complete" ELSE "absent"]
      /\ cacheFile = [f \in CacheNames |->
                        IF f = cache_file(default_year, default_month, default_sample_size)
                        THEN Corrupt ELSE Absent]
      /\ call = Idle
      /\ hist = [NoHist EXCEPT !.localReads = 1, !.parquetRequests = 1,
                               !.geoRequests = 1, !.computed = TRUE]
      /\ log = [parquet |-> {local_file(default_year, default_month)},
                geojson |-> TRUE, saved |-> [f \in CacheNames |-> {}]]
      /\ nCalls = 1
      /\ appState = "serving"
      /\ data_package = Some(startup)
      /\ controls = [start_date |-> 0, end_date |-> MaxDay,
                     hour_range |-> <<min_hour, max_hour>>, payment_type |-> "all",
                     weather |-> AllOption, day_type |-> "all"]
      /\ store = Some(to_json(FilterRows(startup.taxi_df, 0, MaxDay, <<min_hour, max_hour>>,
                                         "all", AllOption, "all")))
      /\ storePending = FALSE
      /\ panels = [p \in PanelIds |-> Unset]
      /\ panelPending = PanelIds
      /\ nChanges = 0

ScatterNext == UpdateScatter

SpecScatter == InitScatter /\ [][ScatterNext]_vars

\* a callback has been triggered and has not run yet
Due == storePending \/ panelPending # {}

\* what a run of a callback does to the triggers: the root callback's run
\* clears its trigger and sets the seven panels'; a panel's run clears its own.
\* A step of DashNext is a step of CallbackNext exactly when it is such a
\* step, and one is possible exactly when Due.
CallbackStep ==
    \/ /\ storePending
       /\ storePending' = FALSE
       /\ panelPending' = PanelIds
    \/ \E p \in panelPending :
         /\ ~storePending
         /\ storePending' = FALSE
         /\ panelPending' = panelPending \ {p}

\* Dash runs a callback it has triggered: the browser sends the request of
\* a triggered callback and the server answers it
CallbacksRun == WF_<<storePending, panelPending>>(CallbackStep)

\* The dashboard with every triggered callback run
SpecLive == InitDash /\ [][DashNext]_vars /\ CallbacksRun

---------------------------------------------------------------------------
(* Properties of the callbacks *)

Weekdays == {"Monday", "Tuesday", "Wednesday", "Thursday", "Friday"}

\* the filter contract's predicate on a row r under the control values c
Matches(r, c) ==
    /\ to_datetime(c.start_date) <= r.date
    /\ r.date <= to_datetime(c.end_date)
    /\ c.hour_range[1] <= r.hour
    /\ r.hour <= c.hour_range[2]
    /\ (c.payment_type = "all" \/ r.payment_type_name = c.payment_type)
    /\ (c.weather = AllOption \/ r.is_rainy = <<c.weather.flag>>)
    /\ \/ c.day_type = "all"
       \/ c.day_type = "weekday" /\ r.day_of_week \in Weekdays
       \/ c.day_type = "weekend" /\ r.day_of_week \in {"Saturday", "Sunday"}

\* C1: the store update_filtered_data wrote holds exactly the rows of the
\* startup table that satisfy all five predicates of the controls it ran
\* with (both ends of the date and hour ranges included), each row once and
\* with its values unchanged.
FilterContract ==
    (store # None /\ ~storePending) =>
      LET json == Val(store)
          want == {i \in DOMAIN TaxiDf : Matches(TaxiDf[i], controls)}
          back == Val(load_filtered_data(store))
      IN /\ Len(json.index) = Cardinality(want)
         /\ Range(json.index) = {TaxiDf[i].index : i \in want}
         /\ \A k \in DOMAIN back : \E i \in want :
              /\ TaxiDf[i].index = back[k].index
              /\ \A c \in DOMAIN TaxiDf[i] \ {"date_hour"} : back[k][c] = TaxiDf[i][c]

\* the root callback has run with every control narrowed and kept some rows
FilterContractWitness ==
    /\ store # None
    /\ ~storePending
    /\ controls.payment_type # "all"
    /\ controls.weather # AllOption
    /\ controls.day_type # "all"
    /\ controls.hour_range = <<default_hour_lo, default_hour_hi>>
    /\ Len(Val(store).index) > 0
    /\ Len(Val(store).index) < Len(TaxiDf)

\* the trips a grouped figure shows: the sum of trip_count over its groups
TripCountSum(fig) ==
    SetSum([k \in DOMAIN fig.data |-> fig.data[k].trip_count], DOMAIN fig.data)

CountPanels == {"time_series", "heatmap", "payment", "weather"}

\* C2: for every store value, the Total Trips metric equals the sum of
\* trip_count over the time series, over the heatmap's cells, over the
\* payment bars and over the weather bars computed from that store value.
PanelsAgree ==
    \A p \in CountPanels :
      (store # None /\ {"metrics", p} \cap panelPending = {}) =>
        panels["metrics"].data[1] = FmtThousands(TripCountSum(panels[p]))

\* all panels have been drawn from a store of several rows, each grouped
\* panel showing more than one group
PanelsAgreeWitness ==
    /\ store # None
    /\ panelPending = {}
    /\ panels["metrics"].data[1] \in {<<"3">>, <<"4">>}
    /\ \A p \in CountPanels : Cardinality(DOMAIN panels[p].data) >= 2

\* C3: the seven panel callbacks are independent: a run of one writes its
\* own output and nothing else, and in every order and interleaving each
\* output is the callback's function of the store value alone.
OrderInsensitive ==
    /\ []((store # None /\ ~storePending) =>
            \A p \in PanelIds \ panelPending : panels[p] = PanelOut(p, store))
    /\ [][\A p \in PanelIds :
            (p \in panelPending /\ p \notin panelPending') =>
              /\ store' = store
              /\ data_package' = data_package
              /\ controls' = controls
              /\ loaderVars' = loaderVars
              /\ \A q \in PanelIds \ {p} : panels'[q] = panels[q]]_vars

\* the seven callbacks have all run on a store of several rows
OrderInsensitiveWitness ==
    /\ store # None
    /\ panelPending = {}
    /\ Len(Val(store).index) >= 2
    /\ \A p \in PanelIds : panels[p] # Unset

\* the store value of the controls' current values
FinalStore ==
    Some(update_filtered_data(controls.start_date, controls.end_date,
                              controls.hour_range, controls.payment_type,
                              controls.weather, controls.day_type))

\* nothing is due and every panel shows the controls' current values
Settled ==
    /\ ~storePending
    /\ panelPending = {}
    /\ store = FinalStore
    /\ \A p \in PanelIds : panels[p] = PanelOut(p, FinalStore)

\* C4: every change of a control triggers update_filtered_data; the store
\* changes only by a run of it on the controls' values, which triggers all
\* seven panels; a panel changes only by its callback run on the store after
\* the root callback has run; and, every triggered callback being run,
\* eventually every panel shows the result for the final control values.
ReactiveChain ==
    /\ [][controls' # controls => storePending']_vars
    /\ [][(storePending /\ ~storePending') =>
            (store' = FinalStore /\ panelPending' = PanelIds)]_vars
    /\ [][store' # store => (storePending /\ ~storePending')]_vars
    /\ [][\A p \in PanelIds :
            panels'[p] # panels[p] =>
              (~storePending /\ p \in panelPending /\ panels'[p] = PanelOut(p, store))]_vars
    /\ <>[]Settled

\* the user has changed a control and the dashboard has settled on it
ReactiveChainWitness ==
    /\ nChanges >= 1
    /\ controls # Layout(TaxiDf)
    /\ Settled

\* C10: the startup table (and the rest of what app.py loaded, and the
\* files on disk) is the same after any sequence of callback runs as when
\* startup finished.
StartupTableKept ==
    /\ data_package = Some(Startup(DashPackage))
    /\ LoadedFirst(DashPackage)

\* the root callback has run a second time, on narrowed controls, and all
\* panels after it
StartupTableKeptWitness ==
    /\ nChanges >= 1
    /\ ~storePending
    /\ panelPending = {}
    /\ store # None
    /\ Len(Val(store).index) < Len(TaxiDf)

---------------------------------------------------------------------------
(* Properties of the loader *)

\* the call has come back from the full path
FullPathDone == call.pc = "return" /\ hist.computed

\* C5: a cache file that exists but cannot be read does not end the call:
\* the call goes on to the full path, and what it returns is what the full
\* path gives (None only when the trip table came out empty, otherwise the
\* package computed in this call).
CacheFallThrough ==
    /\ (hist.cacheFailed /\ call.pc # "idle") =>
         call.pc \in {"load_taxi", "downloaded", "load_geo", "weather", "save", "return"}
    /\ (hist.cacheFailed /\ call.pc = "return") =>
         IF hist.taxiFailed
            \/ SampleAndClean(Parquet(call.year, call.month), call.sample_size) = <<>>
         THEN call.result = None
         ELSE /\ hist.computed
              /\ call.result # None
              /\ Val(call.result) \in PackagesOf(call.year, call.month, call.sample_size)

\* a call whose cache read failed returns a package it computed
CacheFallThroughWitness ==
    /\ FullPathDone
    /\ hist.cacheFailed
    /\ hist.cacheReads = 1
    /\ call.result # None

\* C6 as the specification states it: any failure of the parquet or of the
\* GeoJSON load makes load_all_data return None.
AnyFailureAborts ==
    (call.pc = "return" /\ (hist.taxiFailed \/ hist.geoFailed)) => call.result = None

\* C6: a failure of the trip table's load makes load_all_data return None
\* and app.py exit with status 1 without opening the dashboard; a failure of
\* the GeoJSON request does not: the call returns a package with no geojson,
\* an empty zone lookup and every borough 'Unknown', and app.py serves it.
OnlyTaxiFailureAborts ==
    /\ []((call.pc = "return" /\ hist.taxiFailed) => call.result = None)
    /\ []((call.pc = "return" /\ hist.geoFailed) =>
            /\ call.result # None
            /\ Val(call.result).geojson = None
            /\ Val(call.result).zone_lookup = EmptyDict
            /\ \A i \in DOMAIN Val(call.result).raw :
                 /\ Val(call.result).raw[i].pickup_borough = "Unknown"
                 /\ Val(call.result).raw[i].dropoff_borough = "Unknown")
    /\ [][(call.pc = "return" /\ call.caller = "app" /\ call'.pc = "idle") =>
            IF call.result = None
            THEN appState' = "exited1" /\ data_package' = None
            ELSE /\ appState' = "serving"
                 /\ data_package' = Some(Startup(Val(call.result)))]_vars

\* app.py serves a package it built itself after the GeoJSON request failed
OnlyTaxiFailureAbortsWitness ==
    /\ appState = "serving"
    /\ hist.geoFailed
    /\ hist.computed
    /\ Val(data_package).geojson = None

\* C7 as the specification states it: neither remote input is requested
\* again once a fetch of it has succeeded.
EachInputFetchedOnce ==
    [][/\ hist'.parquetRequests = hist.parquetRequests + 1 =>
            LocalOf(call) \notin log.parquet
       /\ hist'.geoRequests = hist.geoRequests + 1 => ~log.geojson]_vars

\* C7: the parquet of a month is requested at most once after a fetch of it
\* succeeded, the file staying on disk for later loads; the GeoJSON is kept
\* in no file of its own, and every call that runs the full path requests it.
ParquetFetchedOnce ==
    /\ [][hist'.parquetRequests = hist.parquetRequests + 1 =>
            LocalOf(call) \notin log.parquet]_vars
    /\ [](\A n \in log.parquet : rawFile[n] = "complete")
    /\ []((call.pc \in {"weather", "save"} \/ FullPathDone) => hist.geoRequests = 1)

\* a second call read the fetched parquet from disk and requested the
\* GeoJSON, fetched before, once more
ParquetFetchedOnceWitness ==
    /\ nCalls = 2
    /\ call.pc = "weather"
    /\ LocalOf(call) \in log.parquet
    /\ hist.parquetRequests = 0
    /\ hist.localReads = 1
    /\ hist.geoRequests = 1
    /\ hist.geoFailed
    /\ log.geojson

\* C8: within one call the cache file, the local parquet file, the parquet
\* URL and the GeoJSON URL are each read or requested at most once, and a
\* failed load of the trip table ends the call.
NoRetries ==
    /\ hist.cacheReads <= 1
    /\ hist.localReads <= 1
    /\ hist.parquetRequests <= 1
    /\ hist.geoRequests <= 1
    /\ (hist.cacheFailed => hist.cacheReads = 1)
    /\ (hist.geoFailed => hist.geoRequests = 1)
    /\ (hist.taxiFailed => call.pc \in {"return", "idle"})

\* a call whose one parquet request was refused has ended with None, the
\* file still missing
NoRetriesWitness ==
    /\ call.pc = "return"
    /\ hist.taxiFailed
    /\ hist.parquetRequests = 1
    /\ hist.localReads = 0
    /\ rawFile[LocalOf(call)] = "absent"
    /\ call.result = None

\* arguments over which the cache file names are compared
NameYears == {2022, 2023, 20230}
NameMonths == 1..12
NameSampleSizes == {1, 2, 12, 5000, 50000}

\* C9: the cache file name is a function of (year, month, sample_size) that
\* gives distinct names to distinct triples; a file holds only packages saved
\* for its triple, and a call answered from the cache returns the package
\* saved under its own triple.
CacheKeyed ==
    /\ nCalls = 0 =>
         \A y1 \in NameYears, m1 \in NameMonths, s1 \in NameSampleSizes :
           \A y2 \in NameYears, m2 \in NameMonths, s2 \in NameSampleSizes :
             cache_file(y1, m1, s1) = cache_file(y2, m2, s2) =>
               <<y1, m1, s1>> = <<y2, m2, s2>>
    /\ \A y \in Years, m \in Months, s \in SampleSizes :
         log.saved[cache_file(y, m, s)] \subseteq {<<y, m, s>>}
    /\ (call.pc = "return" /\ hist.cacheReads = 1 /\ ~hist.cacheFailed) =>
         /\ <<call.year, call.month, call.sample_size>> \in log.saved[CacheOf(call)]
         /\ call.result = cacheFile[CacheOf(call)].data
         /\ Val(call.result) \in PackagesOf(call.year, call.month, call.sample_size)

\* a call that may use the cache finds only another triple's package on
\* disk and computes its own
CacheKeyedWitness ==
    /\ FullPathDone
    /\ call.use_cache
    /\ hist.cacheReads = 0
    /\ \E n \in CacheNames \ {CacheOf(call)} : cacheFile[n].state = "ok"

\* a call that read the cache file and met no error is about to return
CacheHit == call.pc = "return" /\ hist.cacheReads = 1 /\ ~hist.cacheFailed

\* C11: cache round trip.  When a fresh load has saved its package, the cache
\* file holds the package that load returns; and a call answered from the
\* cache returns the package the file holds, a package of its own
\* (year, month, sample_size), without reading or requesting the parquet
\* file, requesting the GeoJSON, or running the enrichment, the weather
\* generation and the aggregations.
CacheRoundTrip ==
    /\ (call.pc = "return" /\ hist.computed /\ cacheFile[CacheOf(call)].state = "ok")
          => cacheFile[CacheOf(call)].data = call.result
    /\ CacheHit =>
          /\ call.result = cacheFile[CacheOf(call)].data
          /\ call.result # None
          /\ Val(call.result) \in PackagesOf(call.year, call.month, call.sample_size)
          /\ hist.localReads = 0
          /\ hist.parquetRequests = 0
          /\ hist.geoRequests = 0
          /\ ~hist.computed

\* the second call is answered from the cache file the first one saved
CacheRoundTripWitness ==
    /\ CacheHit
    /\ nCalls = 2
    /\ call.result # None
    /\ <<call.year, call.month, call.sample_size>> \in log.saved[CacheOf(call)]

---------------------------------------------------------------------------
(* Properties of the cleaned table *)

\* the table load_taxi_data returns, and the row of the file's table that
\* the returned row r was made from (the index label is kept)
Cleaned == Val(call.result)
SourceOf(r) == call.taxi_df[r.index + 1].raw

\* C12: range invariant of the cleaned table.  Every row _clean_taxi_data
\* returns comes from a row whose pickup and dropoff times are not null and
\* carries those times, has 0 < fare_amount <= 300, 0 < trip_distance <= 100,
\* 0 < passenger_count <= 8, 0 < trip_duration_minutes <= 480, and an hour
\* in 0..23 that is the hour of day of its pickup time.
RangeInvariant ==
    call.pc = "cleaned" =>
      \A i \in DOMAIN Cleaned :
        LET r == Cleaned[i] IN
          /\ ~IsNull(SourceOf(r).tpep_pickup_datetime)
          /\ ~IsNull(SourceOf(r).tpep_dropoff_datetime)
          /\ <<r.tpep_pickup_datetime>> = SourceOf(r).tpep_pickup_datetime
          /\ <<r.tpep_dropoff_datetime>> = SourceOf(r).tpep_dropoff_datetime
          /\ 0 < r.fare_amount /\ r.fare_amount <= 300
          /\ 0 < r.trip_distance /\ r.trip_distance <= 100
          /\ 0 < r.passenger_count /\ r.passenger_count <= 8
          /\ 0 < r.trip_duration_minutes /\ r.trip_duration_minutes <= 480
          /\ r.hour \in 0..23
          /\ \E minute \in 0..59, day \in 0..(MaxDay + 31) :
               r.tpep_pickup_datetime = day * 1440 + r.hour * 60 + minute

\* the cleaning dropped a row of an unsampled table and kept a trip that
\* sits on the limits: an eight-hour trip picked up in the first hour of
\* the data
RangeInvariantWitness ==
    /\ call.pc = "cleaned"
    /\ Len(call.taxi_df) <= call.sample_size
    /\ Len(Cleaned) < Len(call.taxi_df)
    /\ \E i \in DOMAIN Cleaned : Cleaned[i].trip_duration_minutes = 480

PaymentNames == <<"Credit Card", "Cash", "No Charge", "Dispute", "Unknown">>

\* C13: enum invariant of the payment type.  Every row of the cleaned table
\* has one of the five payment names; a row whose payment code is k in 1..5
\* has the k-th of Credit Card, Cash, No Charge, Dispute, Unknown, and a row
\* with any other code or none has Unknown.
PaymentEnum ==
    call.pc = "cleaned" =>
      \A i \in DOMAIN Cleaned :
        LET r == Cleaned[i]
            code == SourceOf(r).payment_type
        IN /\ r.payment_type_name \in Range(PaymentNames)
           /\ \A k \in 1..5 : code = <<k>> => r.payment_type_name = PaymentNames[k]
           /\ (\A k \in 1..5 : code # <<k>>) => r.payment_type_name = "Unknown"

\* a cleaned table with a disputed trip and a trip without a payment code
PaymentEnumWitness ==
    /\ call.pc = "cleaned"
    /\ \E i, j \in DOMAIN Cleaned :
         /\ SourceOf(Cleaned[i]).payment_type = <<4>>
         /\ Cleaned[i].payment_type_name = "Dispute"
         /\ SourceOf(Cleaned[j]).payment_type = <<>>
         /\ Cleaned[j].payment_type_name = "Unknown"

\* C14: when the file's table has more than sample_size rows, the table
\* load_taxi_data returns has exactly sample_size rows; when it has at most
\* sample_size rows, the returned table is the cleaning of the whole table.
SampleExact ==
    call.pc = "cleaned" =>
      IF Len(call.taxi_df) > call.sample_size
      THEN Len(Cleaned) = call.sample_size
      ELSE Cleaned = clean_taxi_data(call.taxi_df)

---------------------------------------------------------------------------
(* Properties of the scatter callback *)

\* the point the scatter plot draws for a trip
PointOf(r) ==
    [trip_distance |-> r.trip_distance, fare_amount |-> r.fare_amount,
     payment_type_name |-> r.payment_type_name, passenger_count |-> r.passenger_count,
     trip_duration_minutes |-> r.trip_duration_minutes]

ScatterRan == store # None /\ ~storePending /\ "scatter" \notin panelPending

\* C15: update_scatter plots min(n, 5000) trips of the n rows of the store:
\* every row in order when n <= 5000, and otherwise 5000 points taken from
\* the rows, no row more than once (each point occurs among the points at
\* most as often as among the rows).
ScatterSample ==
    ScatterRan =>
      LET rows == Val(store).data
          points == panels["scatter"].data
          n == Len(rows)
          drawn == [j \in 1..n |-> PointOf(rows[j])]
      IN /\ panels["scatter"].kind = "scatter"
         /\ Len(points) = IF n <= 5000 THEN n ELSE 5000
         /\ n <= 5000 => points = drawn
         /\ n > 5000 =>
              \A v \in Range(points) :
                Cardinality({i \in DOMAIN points : points[i] = v})
                  <= Cardinality({j \in DOMAIN drawn : drawn[j] = v})

\* the scatter callback has run on a store of more than 5000 rows
ScatterSampleWitness ==
    /\ ScatterRan
    /\ Len(Val(store).data) > 5000
    /\ Len(panels["scatter"].data) = 5000

---------------------------------------------------------------------------
(* Properties of the store *)

\* the columns the panel callbacks read, the two trip times apart
PanelColumns ==
    {"hour", "day_of_week", "payment_type_name", "is_rainy", "fare_amount",
     "trip_distance", "pickup_borough"}

\* C16: store round trip.  The table load_filtered_data reads back from the
\* store has as many rows as the filter result update_filtered_data wrote,
\* the same values row by row in the columns the panels read, and pickup
\* and dropoff times that are datetimes again, equal to the originals.
StoreRoundTrip ==
    (store # None /\ ~storePending) =>
      LET written == FilterRows(TaxiDf, controls.start_date, controls.end_date,
                                controls.hour_range, controls.payment_type,
                                controls.weather, controls.day_type)
          back == Val(load_filtered_data(store))
      IN /\ Len(back) = Len(written)
         /\ \A i \in DOMAIN back :
              /\ \A c \in PanelColumns : back[i][c] = written[i][c]
              /\ back[i].tpep_pickup_datetime = written[i].tpep_pickup_datetime
              /\ back[i].tpep_dropoff_datetime = written[i].tpep_dropoff_datetime
              /\ Val(store).data[i].tpep_pickup_datetime = Iso(written[i].tpep_pickup_datetime)

\* a store of several trips has been written and can be read back
StoreRoundTripWitness ==
    /\ store # None
    /\ ~storePending
    /\ Len(Val(store).data) >= 2
    /\ Len(Val(load_filtered_data(store))) = Len(Val(store).data)

---------------------------------------------------------------------------
(* Properties of the local parquet file *)

\* C17: the local parquet file serves as a cache only if a download of it
\* completed.  A call reads the local file only when some download of that
\* file has completed, and a call fails on the trip data only through a
\* download of its own: after a download that broke part-way the next call
\* requests the file again.
PartialFileNotReused ==
    call.pc = "return" =>
      /\ hist.localReads > 0 => LocalOf(call) \in log.parquet
      /\ hist.taxiFailed => hist.parquetRequests = 1

---------------------------------------------------------------------------
(* Properties of the metrics and of the payment options *)

\* what update_metrics shows for a missing store
ZeroMetrics == update_metrics(None)

\* C18: when the store holds a table of no rows, update_metrics shows '0'
\* trips, '$0.00' average fare, '0 mi' average distance and '$0' revenue,
\* as it does for a missing store.
EmptyStoreZeroMetrics ==
    (store # None /\ ~storePending /\ "metrics" \notin panelPending
       /\ Len(Val(store).data) = 0)
      => /\ panels["metrics"] = ZeroMetrics
         /\ panels["metrics"].data = << <<"0">>, <<"$", "0", ".", "0", "0">>,
                                        <<"0", " ", "m", "i">>, <<"$", "0">> >>

\* the rows the root callback returns with the payment control set to option
StoredUnder(option) ==
    FilterRows(TaxiDf, controls.start_date, controls.end_date, controls.hour_range,
               option, controls.weather, controls.day_type)

\* C19: with the other four controls fixed, every row returned under 'All'
\* is returned under exactly one of the options Credit Card, Cash and Other
\* (whose value is 'Unknown').
PaymentOptionsCover ==
    (store # None /\ ~storePending /\ controls.payment_type = "all") =>
      \A i \in DOMAIN Val(store).index :
        Cardinality({option \in PaymentOptions \ {"all"} :
                       \E j \in DOMAIN StoredUnder(option) :
                          StoredUnder(option)[j].index = Val(store).index[i]}) = 1

---------------------------------------------------------------------------
(* Properties of a recomputation *)

\* a full run has built its package while the cache file still holds the
\* package an earlier full run built for the same (year, month,
\* sample_size), and both runs got the same answer to the GeoJSON request
Recomputed ==
    /\ call.pc = "save"
    /\ cacheFile[CacheOf(call)].state = "ok"
    /\ Val(cacheFile[CacheOf(call)].data).geojson = call.geojson

Cached == Val(cacheFile[CacheOf(call)].data)

\* a table with the weather flag blanked
WithoutWeather(df) == [i \in 1..Len(df) |-> [df[i] EXCEPT !.is_rainy = <<>>]]

=============================================================================
